---- MODULE Spec2Model ----
(***************************************************************************)
(* A model of the validator compiler and facade of pydantic-core:          *)
(*   src/src/validators/mod.rs          SchemaValidator, build_validator,  *)
(*                                      BuildContext                       *)
(*   src/src/validators/model_class.rs  ModelClassValidator, build_config  *)
(*   src/src/validators/frozenset.rs    FrozenSetValidator                 *)
(*                                                                         *)
(* Python dicts are objects with identity: a config is a reference into    *)
(* the heap `dicts`, so that dict.update() is seen through every alias.    *)
(***************************************************************************)
EXTENDS Integers, Sequences, FiniteSets, TLC

VARIABLES
    dicts,          \* heap of Python config dicts: dict id -> mapping
    parent_config,  \* the `config` handed to py_new / ModelClassValidator::build (0 = None)
    child_config,   \* schema["config"] of the last model-class built (0 = None)
    effective,      \* what build_config returned for it (0 = None)
    before,         \* the heap as it was when that build_config call started
    nbuilds,        \* model-class builds done so far
    schema,         \* py_new's schema argument
    pypy,           \* the build target: cfg(PyPy) or not
    slots,          \* BuildContext.slots: Vec<(String, Option<CombinedValidator>)>
    depth,          \* BuildContext.depth
    stack,          \* the calls of build_validator in progress, innermost last
    phase,          \* where py_new is
    error,          \* the error py_new raised ("" = none)
    raised_by,      \* the function that raised it
    inner,          \* the validator T::build returned for each schema node
    cont,           \* the recursive container made for each schema node with a `ref`
    self_clone,     \* complete_validators' clone of the context
    validator,      \* SchemaValidator.validator, <<v>> once built
    final_slots,    \* SchemaValidator.slots
    calls,          \* the validation call of each caller, with its own Extra and guard
    last_call       \* the last BuildContext method called directly, and what it returned

config_vars == <<dicts, parent_config, child_config, effective, before, nbuilds>>
build_vars == <<schema, pypy, slots, depth, stack, phase, error, raised_by, inner, cont,
               self_clone, validator, final_slots>>
call_vars == <<calls, last_call>>
vars == <<config_vars, build_vars, call_vars>>

(***************************************************************************)
(* Bounds of the model.                                                    *)
(***************************************************************************)
MaxPriority == 1    \* priorities range over 0..MaxPriority
MaxBuilds == 2      \* model-class builds under one parent config

(***************************************************************************)
(* Python values.                                                          *)
(***************************************************************************)
None == 0

ConfigKeys == {"config_choose_priority", "config_merge_priority", "strict"}

\* the dict with the given keys K and, for the keys it has, these values
MakeDict(K, choose, merge, strict) ==
    [k \in K |-> IF k = "config_choose_priority" THEN choose
                 ELSE IF k = "config_merge_priority" THEN merge
                 ELSE strict]

\* every config dict over ConfigKeys: any subset of the keys may be missing
ConfigDicts ==
    { MakeDict(K, c, m, s) :
        K \in SUBSET ConfigKeys, c \in 0..MaxPriority, m \in 0..MaxPriority,
        s \in BOOLEAN }

DictIds == {1, 2}

\* dict.update(other): other's items are written into d, overwriting
DictUpdate(d, other) ==
    [k \in DOMAIN d \cup DOMAIN other |->
        IF k \in DOMAIN other THEN other[k] ELSE d[k]]

(***************************************************************************)
(* build_config, model_class.rs:148-182.                                   *)
(***************************************************************************)
\* dict.get_as::<i32>(key)?.unwrap_or_default()
GetPriority(d, key) == IF key \in DOMAIN d THEN d[key] ELSE 0

\* mutant: the tie branch always updates the parent with the child
MergeOnTieParentAlways(heap, parent, child) ==
    [dicts  |-> [heap EXCEPT ![parent] = DictUpdate(heap[parent], heap[child])],
     config |-> parent]

\* the Ordering::Equal arm, model_class.rs:164-178
MergeOnTie(heap, parent, child) ==
    LET parent_merge == GetPriority(heap[parent], "config_merge_priority")
        child_merge  == GetPriority(heap[child], "config_merge_priority")
    IN  IF parent_merge > child_merge
        THEN [dicts  |-> [heap EXCEPT ![child] = DictUpdate(heap[child], heap[parent])],
              config |-> child]
        ELSE [dicts  |-> [heap EXCEPT ![parent] = DictUpdate(heap[parent], heap[child])],
              config |-> parent]

\* mutant: the comparison of the choose priorities is inverted
ChooseInverted(heap, parent, child) ==
    LET parent_choose == GetPriority(heap[parent], "config_choose_priority")
        child_choose  == GetPriority(heap[child], "config_choose_priority")
    IN  IF parent_choose < child_choose THEN [dicts |-> heap, config |-> parent]
        ELSE IF parent_choose > child_choose THEN [dicts |-> heap, config |-> child]
        ELSE MergeOnTie(heap, parent, child)

\* the (Some(parent), Some(child)) arm, model_class.rs:158-180
ChooseOrMerge(heap, parent, child) ==
    LET parent_choose == GetPriority(heap[parent], "config_choose_priority")
        child_choose  == GetPriority(heap[child], "config_choose_priority")
    IN  IF parent_choose > child_choose THEN [dicts |-> heap, config |-> parent]
        ELSE IF parent_choose < child_choose THEN [dicts |-> heap, config |-> child]
        ELSE MergeOnTie(heap, parent, child)

\* build_config(py, schema, parent_config): child is schema.get_as("config")
build_config(heap, parent, child) ==
    IF parent # None /\ child = None THEN [dicts |-> heap, config |-> parent]
    ELSE IF parent = None /\ child # None THEN [dicts |-> heap, config |-> child]
    ELSE IF parent = None /\ child = None THEN [dicts |-> heap, config |-> None]
    ELSE ChooseOrMerge(heap, parent, child)

\* the independent callers of a compiled SchemaValidator
Callers == {"a", "b"}

\* a caller that has not called yet
IdleCall ==
    [state |-> "idle", entry |-> "", input |-> 0, strict |-> <<>>, extra |-> <<>>,
     parsed |-> "", stack |-> <<>>, ret |-> <<>>, guard |-> {}, root |-> <<>>,
     result |-> <<>>]

\* no BuildContext method called directly
NoCall == [op |-> "", id |-> 0, ok |-> TRUE, before |-> <<>>]

\* no validation call and no direct call of the context
IdleCalls ==
    /\ calls = [c \in Callers |-> IdleCall]
    /\ last_call = NoCall

\* no compilation in progress
IdleBuild ==
    /\ schema = <<>>
    /\ pypy = FALSE
    /\ slots = <<>>
    /\ depth = 0
    /\ stack = <<>>
    /\ phase = "idle"
    /\ error = ""
    /\ raised_by = ""
    /\ inner = <<>>
    /\ cont = <<>>
    /\ self_clone = [slots |-> <<>>, inner |-> <<>>]
    /\ validator = <<>>
    /\ final_slots = <<>>

(***************************************************************************)
(* Specification of the config resolver: model-class schemas are compiled  *)
(* one after the other under one parent config.                            *)
(***************************************************************************)
InitConfig ==
    /\ dicts \in [DictIds -> ConfigDicts]
    /\ parent_config \in {None, 1}
    /\ child_config = None
    /\ effective = None
    /\ before = dicts
    /\ nbuilds = 0
    /\ IdleBuild
    /\ IdleCalls

\* ModelClassValidator::build, its first statement (model_class.rs:35)
ModelClassBuildConfig(child) ==
    /\ nbuilds < MaxBuilds
    /\ LET r == build_config(dicts, parent_config, child)
       IN  /\ dicts' = r.dicts
           /\ effective' = r.config
    /\ child_config' = child
    /\ before' = dicts
    /\ nbuilds' = nbuilds + 1
    /\ UNCHANGED <<parent_config, build_vars, call_vars>>

NextConfig == \E child \in {None} \cup DictIds : ModelClassBuildConfig(child)

SpecConfig == InitConfig /\ [][NextConfig]_vars

(***************************************************************************)
(* C2, C3: the config resolver.                                            *)
(***************************************************************************)
BothPresent == nbuilds > 0 /\ parent_config # None /\ child_config # None

ChooseOf(ref) == IF "config_choose_priority" \in DOMAIN before[ref]
                 THEN before[ref]["config_choose_priority"] ELSE 0

MergeOf(ref) == IF "config_merge_priority" \in DOMAIN before[ref]
                THEN before[ref]["config_merge_priority"] ELSE 0

NoKey == ""

SchemaDict(type, ref) ==
    [form |-> "dict", type |-> type, ref |-> ref, schema_ref |-> NoKey,
     kids |-> <<>>, config |-> None, strict |-> FALSE,
     return_fields_set |-> FALSE]

TagSchema(type) == [SchemaDict(type, NoKey) EXCEPT !.form = "tag"]

RecursiveRefSchema(ref, name) ==
    [SchemaDict("recursive-ref", ref) EXCEPT !.schema_ref = name]

TypedDictSchema(ref, rfs) ==
    [SchemaDict("typed-dict", ref) EXCEPT !.return_fields_set = rfs]

ModelClassSchema(ref, config, strict) ==
    [SchemaDict("model-class", ref) EXCEPT !.config = config, !.strict = strict]

\* the table t with every node number raised by k
Shift(t, k) ==
    [i \in 1..Len(t) |-> [t[i] EXCEPT !.kids = [j \in 1..Len(@) |-> @[j] + k]]]

\* the schema `node` with no, one or two child schemas
Tree0(node) == <<node>>

Tree1(node, t1) == <<[node EXCEPT !.kids = <<2>>]>> \o Shift(t1, 1)

Tree2(node, t1, t2) ==
    <<[node EXCEPT !.kids = <<2, 2 + Len(t1)>>]>> \o Shift(t1, 1) \o Shift(t2, 1 + Len(t1))

\* n frozensets around a leaf: the leaf is at nesting level n + 1
Chain(n, leaf) ==
    [i \in 1..(n + 1) |->
        IF i <= n THEN [SchemaDict("frozenset", NoKey) EXCEPT !.kids = <<i + 1>>]
        ELSE leaf]

\* build_validator, mod.rs:237-244: a schema that is no dict is the type tag
NormalizeSchema(s) ==
    IF s.form = "dict" THEN s ELSE SchemaDict(s.type, NoKey)

\* the dict that build_validator makes of schema node n
Dict(n) == NormalizeSchema(schema[n])

\* the EXPECTED_TYPE of the builders of validator_match! that the model has
RegisteredTypes == {"typed-dict", "model-class", "int", "recursive-ref", "frozenset"}

(***************************************************************************)
(* CombinedValidator.  Every validator is owned by one place, so it is     *)
(* named by the schema node it was built from: inner[n] is what T::build   *)
(* returned for node n, cont[n] the RecursiveContainerValidator that       *)
(* build_single_validator made for it when the node has a `ref`; each is   *)
(* <<>> until it exists.  `kids` are the schema nodes of the validators a  *)
(* validator owns.  `completed` is a history field: the complete hook of   *)
(* the validator has been invoked.                                         *)
(***************************************************************************)
ValidatorNode(kind, name, kids) ==
    [kind |-> kind, name |-> name, strict |-> FALSE, validator_id |-> 0,
     kids |-> kids, completed |-> FALSE]

IntValidator == ValidatorNode("Int", "int", <<>>)

FrozenSetValidator(item) == ValidatorNode("FrozenSet", "frozenset", <<item>>)

TypedDictValidator(fields) == ValidatorNode("Model", "typed-dict", fields)

ModelClassName == "Branch"

\* ModelClassValidator, model_class.rs:49-58
ModelClassValidator(strict, sub) ==
    [ValidatorNode("ModelClass", ModelClassName, <<sub>>) EXCEPT !.strict = strict]

\* recursive::RecursiveContainerValidator::create(slot_id, name)
RecursiveContainerValidator(slot_id, name) ==
    [ValidatorNode("Recursive", name, <<>>) EXCEPT !.validator_id = slot_id]

\* recursive::RecursiveRefValidator: the name is a placeholder until complete
RecursiveRefValidator(slot_id) ==
    [ValidatorNode("RecursiveRef", "...", <<>>) EXCEPT !.validator_id = slot_id]

\* what build_validator returned for schema node n: the container when the
\* node has a `ref`, else the validator itself
Via(n) == IF Dict(n).ref # NoKey THEN "cont" ELSE "inner"

\* the validator at a place
At(via, n) == IF via = "cont" THEN cont[n][1] ELSE inner[n][1]

(***************************************************************************)
(* BuildContext, mod.rs:428-510.  Slot ids are zero-based: slot id i is    *)
(* slots[i + 1].  The Option<CombinedValidator> of a slot is <<>> (None)   *)
(* or <<n>>: the validator built from schema node n.                       *)
(***************************************************************************)
MAX_DEPTH == 100
MAX_DEPTH_PYPY == 50

MaxDepth(on_pypy) == IF on_pypy THEN MAX_DEPTH_PYPY ELSE MAX_DEPTH

\* mutant: the id is the length after the push
PrepareSlotOneBased(sl, slot_ref) ==
    [slots |-> Append(sl, [ref |-> slot_ref, validator |-> <<>>]), id |-> Len(sl) + 1]

\* prepare_slot: the id is the length before the push
prepare_slot(sl, slot_ref) ==
    [slots |-> Append(sl, [ref |-> slot_ref, validator |-> <<>>]), id |-> Len(sl)]

\* mutant: the entry is found and the validator not stored in it
CompleteSlotDropsValidator(sl, slot_id, v) ==
    [ok |-> slot_id >= 0 /\ slot_id < Len(sl), slots |-> sl]

\* complete_slot: any id in range is (re)written, any other id is an error
complete_slot(sl, slot_id, v) ==
    IF slot_id >= 0 /\ slot_id < Len(sl)
    THEN [ok |-> TRUE,
          slots |-> [sl EXCEPT ![slot_id + 1] =
                        [ref |-> sl[slot_id + 1].ref, validator |-> <<v>>]]]
    ELSE [ok |-> FALSE, slots |-> sl]

\* mutant: the check lets one level too many through
IncrCheckDepthOffByOne(d, max) == [depth |-> d + 1, ok |-> ~(d + 1 > max + 1)]

\* incr_check_depth: increment, then compare
incr_check_depth(d, max) == [depth |-> d + 1, ok |-> ~(d + 1 > max)]

\* mutant: the depth is not given back on exit
DecrDepthForgotten(d) == d

\* decr_depth
decr_depth(d) == d - 1

\* the first slot of that name, as a position of the sequence
FirstSlotNamed(sl, val_ref) ==
    CHOOSE i \in 1..Len(sl) :
        /\ sl[i].ref = val_ref
        /\ \A j \in 1..(i - 1) : sl[j].ref # val_ref

\* mutant: a name that is not there resolves to the next slot to be reserved
FindSlotIdLenient(sl, val_ref) ==
    IF \E i \in 1..Len(sl) : sl[i].ref = val_ref
    THEN [ok |-> TRUE, id |-> FirstSlotNamed(sl, val_ref) - 1]
    ELSE [ok |-> TRUE, id |-> Len(sl)]

\* find_slot_id: slots.iter().position(is_match)
find_slot_id(sl, val_ref) ==
    IF \E i \in 1..Len(sl) : sl[i].ref = val_ref
    THEN [ok |-> TRUE, id |-> FirstSlotNamed(sl, val_ref) - 1]
    ELSE [ok |-> FALSE, id |-> 0]

\* get_validator: "ok", "not_yet_filled" or "not_found", and the validator
get_validator(sl, slot_id) ==
    IF slot_id >= 0 /\ slot_id < Len(sl)
    THEN IF sl[slot_id + 1].validator # <<>>
         THEN [res |-> "ok", validator |-> sl[slot_id + 1].validator]
         ELSE [res |-> "not_yet_filled", validator |-> <<>>]
    ELSE [res |-> "not_found", validator |-> <<>>]

\* mutant: an unfilled slot is dropped from the frozen sequence
IntoSlotsSkipUnfilled(sl) ==
    [ok |-> TRUE,
     slots |-> [i \in 1..Len(sl) |-> IF sl[i].validator = <<>> THEN 0 ELSE sl[i].validator[1]]]

\* into_slots: every slot must be filled
into_slots(sl) ==
    IF \E i \in 1..Len(sl) : sl[i].validator = <<>>
    THEN [ok |-> FALSE, slots |-> <<>>]
    ELSE [ok |-> TRUE, slots |-> [i \in 1..Len(sl) |-> sl[i].validator[1]]]

(***************************************************************************)
(* The schema compiler: build_validator and build_single_validator,        *)
(* mod.rs:194-302, as a stack of calls.  A frame is one call of            *)
(* build_validator on schema node `node`: pc = "call" on entry, "build"    *)
(* while T::build runs, "ret" once T::build has returned inner[node];      *)
(* nbuilt counts the child schemas compiled so far.                        *)
(***************************************************************************)
Frame(pc, via, n, config) ==
    [pc |-> pc, via |-> via, node |-> n, config |-> config, slot_id |-> -1, nbuilt |-> 0]

Top == stack[Len(stack)]

TopDict == Dict(Top.node)

SetTop(f) == [stack EXCEPT ![Len(stack)] = f]

\* the stack with its top frame gone and the caller's count advanced
PopToCaller ==
    [SubSeq(stack, 1, Len(stack) - 1) EXCEPT ![Len(stack) - 1].nbuilt = @ + 1]

Building(pc) == phase = "build_validator" /\ stack # <<>> /\ Top.pc = pc

Raise(kind, by) ==
    /\ phase' = "failed"
    /\ error' = kind
    /\ raised_by' = by

NoRaise == UNCHANGED <<error, raised_by>>

\* mutant: the depth is checked before the type tag is looked up
EnterBuildDepthFirst(d, dep, max) ==
    LET i == incr_check_depth(dep, max)
    IN  IF ~i.ok THEN [error |-> "depth_exceeded", by |-> "incr_check_depth", depth |-> i.depth]
        ELSE IF d.type = NoKey
        THEN [error |-> "missing_key", by |-> "build_validator", depth |-> i.depth]
        ELSE IF d.type \notin RegisteredTypes
        THEN [error |-> "unknown_type", by |-> "build_validator", depth |-> i.depth]
        ELSE [error |-> "", by |-> "", depth |-> i.depth]

\* build_validator up to the first statement of build_single_validator:
\* get_as_req("type") (mod.rs:245), the match on the tag (mod.rs:221-228),
\* then incr_check_depth (mod.rs:200)
EnterBuild(d, dep, max) ==
    IF d.type = NoKey
    THEN [error |-> "missing_key", by |-> "build_validator", depth |-> dep]
    ELSE IF d.type \notin RegisteredTypes
    THEN [error |-> "unknown_type", by |-> "build_validator", depth |-> dep]
    ELSE LET i == incr_check_depth(dep, max)
         IN  IF i.ok THEN [error |-> "", by |-> "", depth |-> i.depth]
             ELSE [error |-> "depth_exceeded", by |-> "incr_check_depth", depth |-> i.depth]

\* build_validator, then build_single_validator down to prepare_slot
BuildValidatorCall ==
    /\ Building("call")
    /\ LET d == TopDict
           e == EnterBuild(d, depth, MaxDepth(pypy))
       IN  /\ depth' = e.depth
           /\ IF e.error # ""
              THEN Raise(e.error, e.by) /\ UNCHANGED <<slots, stack>>
              ELSE /\ phase' = phase
                   /\ NoRaise
                   /\ IF d.ref # NoKey
                      THEN LET p == prepare_slot(slots, d.ref)
                           IN  /\ slots' = p.slots
                               /\ stack' = SetTop([Top EXCEPT !.pc = "build", !.slot_id = p.id])
                      ELSE /\ slots' = slots
                           /\ stack' = SetTop([Top EXCEPT !.pc = "build"])
    /\ UNCHANGED <<config_vars, call_vars, schema, pypy, inner, cont, self_clone, validator, final_slots>>

\* T::build returns validator v for the node of the top frame
BuildReturns(v) ==
    /\ inner' = [inner EXCEPT ![Top.node] = <<v>>]
    /\ stack' = SetTop([Top EXCEPT !.pc = "ret"])

\* IntValidator::build: a leaf
BuildInt ==
    /\ Building("build")
    /\ TopDict.type = "int"
    /\ BuildReturns(IntValidator)
    /\ UNCHANGED <<config_vars, call_vars, schema, pypy, slots, depth, phase, error, raised_by, cont,
                   self_clone, validator, final_slots>>

\* RecursiveRefValidator::build: the slot is looked up by name
BuildRecursiveRef ==
    /\ Building("build")
    /\ TopDict.type = "recursive-ref"
    /\ LET f == find_slot_id(slots, TopDict.schema_ref)
       IN  IF f.ok
           THEN /\ BuildReturns(RecursiveRefValidator(f.id))
                /\ phase' = phase
                /\ NoRaise
           ELSE Raise("ref_not_found", "find_slot_id") /\ UNCHANGED <<stack, inner>>
    /\ UNCHANGED <<config_vars, call_vars, schema, pypy, slots, depth, cont, self_clone, validator,
                   final_slots>>

\* a frozenset or typed-dict builder compiles its next child schema under
\* the config it was given
BuildChild ==
    /\ Building("build")
    /\ TopDict.type \in {"frozenset", "typed-dict"}
    /\ Top.nbuilt < Len(TopDict.kids)
    /\ stack' = Append(stack, Frame("call", "", TopDict.kids[Top.nbuilt + 1], Top.config))
    /\ UNCHANGED <<config_vars, call_vars, schema, pypy, slots, depth, phase, error, raised_by, inner,
                   cont, self_clone, validator, final_slots>>

\* ... and returns its validator once every child is compiled
BuildContainer ==
    /\ Building("build")
    /\ TopDict.type \in {"frozenset", "typed-dict"}
    /\ Top.nbuilt = Len(TopDict.kids)
    /\ BuildReturns(IF TopDict.type = "frozenset"
                    THEN FrozenSetValidator(TopDict.kids[1])
                    ELSE TypedDictValidator(TopDict.kids))
    /\ UNCHANGED <<config_vars, call_vars, schema, pypy, slots, depth, phase, error, raised_by, cont,
                   self_clone, validator, final_slots>>

\* ModelClassValidator::build, model_class.rs:35-39: the config is resolved
\* and the inner schema compiled under it
ModelClassBuild ==
    /\ Building("build")
    /\ TopDict.type = "model-class"
    /\ Top.nbuilt = 0
    /\ LET r == build_config(dicts, Top.config, TopDict.config)
       IN  /\ dicts' = r.dicts
           /\ effective' = r.config
           /\ child_config' = TopDict.config
           /\ before' = dicts
           /\ nbuilds' = nbuilds + 1
           /\ stack' = Append(stack, Frame("call", "", TopDict.kids[1], r.config))
    /\ UNCHANGED <<parent_config, call_vars, schema, pypy, slots, depth, phase, error, raised_by, inner,
                   cont, self_clone, validator, final_slots>>

\* ModelClassValidator::build, model_class.rs:40-59: the inner schema must
\* be a typed-dict that returns its fields set
ModelClassFinish ==
    /\ Building("build")
    /\ TopDict.type = "model-class"
    /\ Top.nbuilt = 1
    /\ LET td_schema == Dict(TopDict.kids[1])
       IN  IF td_schema.type # "typed-dict"
           THEN /\ Raise("expected_typed_dict", "ModelClassValidator::build")
                /\ UNCHANGED <<stack, inner>>
           ELSE IF ~td_schema.return_fields_set
           THEN /\ Raise("return_fields_set_required", "ModelClassValidator::build")
                /\ UNCHANGED <<stack, inner>>
           ELSE /\ BuildReturns(ModelClassValidator(TopDict.strict, TopDict.kids[1]))
                /\ phase' = phase
                /\ NoRaise
    /\ UNCHANGED <<config_vars, call_vars, schema, pypy, slots, depth, cont, self_clone, validator,
                   final_slots>>

\* build_single_validator, mod.rs:206-215: with a `ref` the slot is filled
\* and a recursive container returned; the depth is decremented and
\* (validator, schema_dict) handed to the caller
BuildSingleReturn ==
    /\ Building("ret")
    /\ LET n == Top.node
           c == complete_slot(slots, Top.slot_id, n)
       IN  IF TopDict.ref # NoKey /\ ~c.ok
           THEN /\ Raise("slot_not_found", "complete_slot")
                /\ UNCHANGED <<slots, depth, stack, cont, validator>>
           ELSE /\ IF TopDict.ref # NoKey
                   THEN /\ slots' = c.slots
                        /\ cont' = [cont EXCEPT ![n] =
                              <<RecursiveContainerValidator(Top.slot_id, inner[n][1].name)>>]
                   ELSE UNCHANGED <<slots, cont>>
                /\ depth' = decr_depth(depth)
                /\ NoRaise
                /\ IF Len(stack) = 1
                   THEN /\ stack' = <<>>
                        /\ validator' = <<n>>
                        /\ phase' = "complete_validators"
                   ELSE /\ stack' = PopToCaller
                        /\ validator' = validator
                        /\ phase' = phase
    /\ UNCHANGED <<config_vars, call_vars, schema, pypy, inner, self_clone, final_slots>>

(***************************************************************************)
(* SchemaValidator::py_new after build_validator, mod.rs:62-71.  The       *)
(* complete hooks run as a stack of calls too: a frame with pc =           *)
(* "complete" is one call of Validator::complete on the validator At(via,  *)
(* node), nbuilt counting the children whose hook has returned; the frame  *)
(* with pc = "slots" is the loop of complete_validators, nbuilt counting   *)
(* the slots done.                                                         *)
(***************************************************************************)
Completing == phase \in {"complete_validators", "complete_root"}

InHook(kinds) ==
    /\ Completing
    /\ stack # <<>>
    /\ Top.pc = "complete"
    /\ At(Top.via, Top.node).kind \in kinds

\* the validator of the top frame becomes v and its hook returns Ok
HookReturns(v) ==
    /\ IF Top.via = "cont"
       THEN cont' = [cont EXCEPT ![Top.node] = <<v>>] /\ inner' = inner
       ELSE inner' = [inner EXCEPT ![Top.node] = <<v>>] /\ cont' = cont
    /\ IF Len(stack) = 1
       THEN stack' = <<>> /\ phase' = "into_slots"
       ELSE stack' = PopToCaller /\ phase' = phase
    /\ NoRaise

\* complete_validators, mod.rs:489: the clone the hooks read from
CompleteValidatorsBegin ==
    /\ phase = "complete_validators"
    /\ stack = <<>>
    /\ self_clone' = [slots |-> slots, inner |-> inner]
    /\ stack' = <<Frame("slots", "", 0, None)>>
    /\ UNCHANGED <<config_vars, call_vars, schema, pypy, slots, depth, phase, error, raised_by, inner,
                   cont, validator, final_slots>>

\* complete_validators, mod.rs:490-498: the next slot, in slot order
CompleteValidatorsNext ==
    /\ phase = "complete_validators"
    /\ stack # <<>>
    /\ Top.pc = "slots"
    /\ IF Top.nbuilt = Len(slots)
       THEN /\ stack' = <<>>
            /\ phase' = "complete_root"
            /\ NoRaise
       ELSE IF slots[Top.nbuilt + 1].validator = <<>>
       THEN Raise("slot_not_yet_filled", "complete_validators") /\ UNCHANGED stack
       ELSE /\ stack' = Append(stack, Frame("complete", "inner",
                                            slots[Top.nbuilt + 1].validator[1], None))
            /\ phase' = phase
            /\ NoRaise
    /\ UNCHANGED <<config_vars, call_vars, schema, pypy, slots, depth, inner, cont, self_clone,
                   validator, final_slots>>

\* py_new, mod.rs:63: validator.complete(&build_context)
CompleteRootBegin ==
    /\ phase = "complete_root"
    /\ stack = <<>>
    /\ stack' = <<Frame("complete", Via(validator[1]), validator[1], None)>>
    /\ UNCHANGED <<config_vars, call_vars, schema, pypy, slots, depth, phase, error, raised_by, inner,
                   cont, self_clone, validator, final_slots>>

\* the trait's default hook, mod.rs:423-425, of the validators that own none
CompleteDefault ==
    /\ InHook({"Int", "Recursive"})
    /\ HookReturns([At(Top.via, Top.node) EXCEPT !.completed = TRUE])
    /\ UNCHANGED <<config_vars, call_vars, schema, pypy, slots, depth, self_clone, validator,
                   final_slots>>

\* ModelClassValidator has no complete of its own (model_class.rs:63-91):
\* the default hook runs and the validator it owns is not visited
CompleteModelClass ==
    /\ InHook({"ModelClass"})
    /\ HookReturns([At(Top.via, Top.node) EXCEPT !.completed = TRUE])
    /\ UNCHANGED <<config_vars, call_vars, schema, pypy, slots, depth, self_clone, validator,
                   final_slots>>

\* FrozenSetValidator::complete, frozenset.rs:65-67: the item validator's
\* hook is called ...
CompleteFrozenSetItem ==
    /\ InHook({"FrozenSet"})
    /\ Top.nbuilt = 0
    /\ LET item == At(Top.via, Top.node).kids[1]
       IN  stack' = Append(stack, Frame("complete", Via(item), item, None))
    /\ UNCHANGED <<config_vars, call_vars, schema, pypy, slots, depth, phase, error, raised_by, inner,
                   cont, self_clone, validator, final_slots>>

\* ... and its result returned
CompleteFrozenSetReturn ==
    /\ InHook({"FrozenSet"})
    /\ Top.nbuilt = 1
    /\ HookReturns([At(Top.via, Top.node) EXCEPT !.completed = TRUE])
    /\ UNCHANGED <<config_vars, call_vars, schema, pypy, slots, depth, self_clone, validator,
                   final_slots>>

\* TypedDictValidator::complete: the hook of each field validator in turn
CompleteTypedDictField ==
    /\ InHook({"Model"})
    /\ Top.nbuilt < Len(At(Top.via, Top.node).kids)
    /\ LET field == At(Top.via, Top.node).kids[Top.nbuilt + 1]
       IN  stack' = Append(stack, Frame("complete", Via(field), field, None))
    /\ UNCHANGED <<config_vars, call_vars, schema, pypy, slots, depth, phase, error, raised_by, inner,
                   cont, self_clone, validator, final_slots>>

CompleteTypedDictReturn ==
    /\ InHook({"Model"})
    /\ Top.nbuilt = Len(At(Top.via, Top.node).kids)
    /\ HookReturns([At(Top.via, Top.node) EXCEPT !.completed = TRUE])
    /\ UNCHANGED <<config_vars, call_vars, schema, pypy, slots, depth, self_clone, validator,
                   final_slots>>

\* RecursiveRefValidator::complete: the name of the validator in its slot is
\* taken from the context the hook was given: complete_validators hands its
\* clone, py_new the context itself
CompleteRecursiveRef ==
    /\ InHook({"RecursiveRef"})
    /\ LET v == At(Top.via, Top.node)
           ctx == IF phase = "complete_validators" THEN self_clone
                  ELSE [slots |-> slots, inner |-> inner]
           g == get_validator(ctx.slots, v.validator_id)
       IN  IF g.res = "ok"
           THEN HookReturns([v EXCEPT !.completed = TRUE,
                                      !.name = ctx.inner[g.validator[1]][1].name])
           ELSE /\ Raise("slot_" \o g.res, "get_validator")
                /\ UNCHANGED <<stack, inner, cont>>
    /\ UNCHANGED <<config_vars, call_vars, schema, pypy, slots, depth, self_clone, validator,
                   final_slots>>

\* py_new, mod.rs:64-71
IntoSlots ==
    /\ phase = "into_slots"
    /\ LET r == into_slots(slots)
       IN  IF ~r.ok
           THEN Raise("slot_not_yet_filled", "into_slots") /\ UNCHANGED final_slots
           ELSE /\ final_slots' = r.slots
                /\ phase' = "done"
                /\ NoRaise
    /\ UNCHANGED <<config_vars, call_vars, schema, pypy, slots, depth, stack, inner, cont, self_clone,
                   validator>>

(***************************************************************************)
(* The schemas compiled.  Small trees of every registered type, with and   *)
(* without `ref`, and chains of frozensets that reach the depth ceiling.   *)
(***************************************************************************)
Overshoot == 1      \* nesting levels past the ceiling that a chain may have

\* a leaf schema: an int (as dict or bare tag), an unregistered tag, a dict
\* without `type`
IntSchemas == {SchemaDict("int", NoKey), TagSchema("int")}

BadSchemas == {TagSchema("bogus"), SchemaDict(NoKey, NoKey)}

\* references to the slot names "A" (reserved by the trees below) and "B"
\* (reserved by none)
RefSchemas == {RecursiveRefSchema(NoKey, name) : name \in {"A", "B"}}

ItemSchemas ==
    {Tree0(l) : l \in IntSchemas \cup BadSchemas \cup RefSchemas}
        \cup {Tree1(SchemaDict("frozenset", NoKey), Tree0(l)) :
                l \in {SchemaDict("int", NoKey)} \cup RefSchemas}

TypedDictSchemas ==
    {Tree1(TypedDictSchema(ref, TRUE), t) : ref \in {NoKey, "A"}, t \in ItemSchemas}
        \cup {Tree2(TypedDictSchema("A", rfs), Tree0(SchemaDict("int", "B")),
                    Tree0(RecursiveRefSchema(NoKey, name))) :
                rfs \in BOOLEAN, name \in {"A", "B"}}
        \cup {Tree2(TypedDictSchema("A", TRUE), Tree0(RecursiveRefSchema(NoKey, "B")),
                    Tree0(SchemaDict("int", "B")))}

ModelClassSchemas ==
    {Tree1(ModelClassSchema(ref, config, strict), t) :
        ref \in {NoKey, "A"}, config \in {None, 2}, strict \in BOOLEAN,
        t \in TypedDictSchemas \cup {Tree0(SchemaDict("int", NoKey))}}

TreeSchemas ==
    ItemSchemas
        \cup {Tree1(SchemaDict("frozenset", "A"), t) : t \in ItemSchemas}
        \cup TypedDictSchemas
        \cup ModelClassSchemas

\* chains whose leaf sits on the ceiling or up to Overshoot levels past it
ChainSchemas(max) ==
    {Chain(n, leaf) :
        n \in (max - 1)..(max - 1 + Overshoot),
        leaf \in {SchemaDict("int", NoKey)} \cup BadSchemas}

\* n frozensets around a typed-dict with two int fields: the two siblings
\* sit at nesting level n + 2, and the schema has n + 3 nodes
WideChain(n) ==
    Chain(n, [TypedDictSchema(NoKey, TRUE) EXCEPT !.kids = <<n + 2, n + 3>>])
        \o <<SchemaDict("int", NoKey), SchemaDict("int", NoKey)>>

\* wide chains whose siblings sit on the ceiling or up to Overshoot past it
WideSchemas(max) == {WideChain(n) : n \in (max - 2)..(max - 2 + Overshoot)}

\* the config dicts of a compilation: 1 is py_new's config, 2 a schema's
BuildHeaps ==
    {<<MakeDict(ConfigKeys, c, 0, TRUE), MakeDict({"strict"}, 0, 0, FALSE)>> : c \in {0, 1}}

(***************************************************************************)
(* Specification of the compiler: SchemaValidator::py_new(schema, config), *)
(* mod.rs:51-72.                                                           *)
(***************************************************************************)
Init ==
    /\ \/ /\ pypy = FALSE
          /\ schema \in TreeSchemas
          /\ dicts \in BuildHeaps
          /\ parent_config \in {None, 1}
       \/ /\ pypy \in BOOLEAN
          /\ schema \in ChainSchemas(MaxDepth(pypy)) \cup WideSchemas(MaxDepth(pypy))
          /\ dicts \in BuildHeaps
          /\ parent_config = None
    /\ child_config = None
    /\ effective = None
    /\ before = dicts
    /\ nbuilds = 0
    /\ slots = <<>>
    /\ depth = 0
    /\ stack = <<Frame("call", "", 1, parent_config)>>
    /\ phase = "build_validator"
    /\ error = ""
    /\ raised_by = ""
    /\ inner = [n \in 1..Len(schema) |-> <<>>]
    /\ cont = [n \in 1..Len(schema) |-> <<>>]
    /\ self_clone = [slots |-> <<>>, inner |-> <<>>]
    /\ validator = <<>>
    /\ final_slots = <<>>
    /\ IdleCalls

Next ==
    \/ BuildValidatorCall
    \/ BuildInt
    \/ BuildRecursiveRef
    \/ BuildChild
    \/ BuildContainer
    \/ ModelClassBuild
    \/ ModelClassFinish
    \/ BuildSingleReturn
    \/ CompleteValidatorsBegin
    \/ CompleteValidatorsNext
    \/ CompleteRootBegin
    \/ CompleteDefault
    \/ CompleteModelClass
    \/ CompleteFrozenSetItem
    \/ CompleteFrozenSetReturn
    \/ CompleteTypedDictField
    \/ CompleteTypedDictReturn
    \/ CompleteRecursiveRef
    \/ IntoSlots

Spec == Init /\ [][Next]_vars

(***************************************************************************)
(* Properties of the compiler.                                             *)
(***************************************************************************)
Ceiling == MaxDepth(pypy)

\* C5 as stated: the depth counter never exceeds the ceiling.
C5_DepthNeverExceedsCeiling == depth <= Ceiling

\* C5: the depth counter is incremented before it is compared, so it is at
\* most one past the ceiling; it is past the ceiling only once compilation
\* has aborted with the depth-exceeded error, which leaves it at ceiling + 1
\* on the entry of the node at nesting level ceiling + 1; no builder ever
\* runs for a node past the ceiling.
C5_DepthBoundedUntilAbort ==
    /\ depth <= Ceiling + 1
    /\ depth > Ceiling =>
          (phase = "failed" /\ error = "depth_exceeded" /\ raised_by = "incr_check_depth")
    /\ error = "depth_exceeded" =>
          (depth = Ceiling + 1 /\ Len(stack) = Ceiling + 1 /\ Top.pc = "call")
    /\ \A i \in 1..Len(stack) : stack[i].pc \in {"build", "ret"} => i <= Ceiling

\* C5 witness: a chain with a registered leaf one level past the ceiling of
\* 100 has aborted, the counter standing at 101.
C5_Witness ==
    /\ ~pypy
    /\ phase = "failed"
    /\ error = "depth_exceeded"
    /\ TopDict.type = "int"
    /\ Len(stack) = MAX_DEPTH + 1
    /\ depth = MAX_DEPTH + 1

\* C6 as stated: a node one level past the ceiling fails with the
\* depth-exceeded error whatever its type tag.
C6_DepthCheckedBeforeLookup ==
    (phase = "failed" /\ Len(stack) > Ceiling /\ Top.pc = "call") =>
        error = "depth_exceeded"

\* C6: the type tag of a node is looked up before the depth is touched: a
\* node without `type` fails with the missing-key error and a node with an
\* unregistered tag with the unknown-type error, at any level and with the
\* depth counter not incremented for it; only a node with a registered tag
\* fails on entry with the depth-exceeded error, one level past the ceiling.
C6_LookupBeforeDepthCheck ==
    (phase = "failed" /\ stack # <<>> /\ Top.pc = "call") =>
        /\ TopDict.type = NoKey =>
              (error = "missing_key" /\ depth = Len(stack) - 1)
        /\ (TopDict.type # NoKey /\ TopDict.type \notin RegisteredTypes) =>
              (error = "unknown_type" /\ depth = Len(stack) - 1)
        /\ TopDict.type \in RegisteredTypes =>
              (error = "depth_exceeded" /\ Len(stack) = Ceiling + 1)

\* C6 witness: an unregistered tag one level past the ceiling has failed
\* with the unknown-type error, the counter standing on the ceiling.
C6_Witness ==
    /\ phase = "failed"
    /\ Len(stack) = Ceiling + 1
    /\ Top.pc = "call"
    /\ TopDict.type = "bogus"
    /\ error = "unknown_type"
    /\ depth = Ceiling

\* the names that a recursive-ref of the schema asks for and that no `ref`
\* of the schema reserves
DeadNames ==
    {Dict(i).schema_ref : i \in {j \in 1..Len(schema) : Dict(j).type = "recursive-ref"}}
        \ {Dict(i).ref : i \in 1..Len(schema)}

HasDeadSlot == DeadNames # {}

C9_CompleteReachesEveryNode ==
    phase = "done" =>
        \A n \in 1..Len(schema) :
            /\ inner[n] # <<>> => inner[n][1].completed
            /\ cont[n] # <<>> => cont[n][1].completed

\* C9 divergence, seen from the other side: without a model-class in the
\* schema the hook of every validator has been invoked.
CompleteReachesAllButModelClass ==
    (\A n \in 1..Len(schema) : Dict(n).type # "model-class") => C9_CompleteReachesEveryNode

(***************************************************************************)
(* Specification of the Slot Table: the methods of BuildContext called in  *)
(* any order with any arguments, as their signatures allow.                *)
(***************************************************************************)
MaxSlots == 2       \* slots that are reserved

SlotNames == {"A", "B"}

\* the validators handed to complete_slot, named as in `inner`
SlotValidators == {1, 2}

InitContext ==
    /\ dicts = <<>>
    /\ parent_config = None
    /\ child_config = None
    /\ effective = None
    /\ before = dicts
    /\ nbuilds = 0
    /\ IdleBuild
    /\ IdleCalls

\* BuildContext::prepare_slot(slot_ref), mod.rs:441-445
PrepareSlot(slot_ref) ==
    /\ Len(slots) < MaxSlots
    /\ LET p == prepare_slot(slots, slot_ref)
       IN  /\ slots' = p.slots
           /\ last_call' = [op |-> "prepare_slot", id |-> p.id, ok |-> TRUE, before |-> slots]
    /\ UNCHANGED <<config_vars, schema, pypy, depth, stack, phase, error, raised_by, inner,
                   cont, self_clone, validator, final_slots, calls>>

\* BuildContext::complete_slot(slot_id, validator), mod.rs:447-455
CompleteSlot(slot_id, v) ==
    /\ LET c == complete_slot(slots, slot_id, v)
       IN  /\ slots' = c.slots
           /\ last_call' = [op |-> "complete_slot", id |-> slot_id, ok |-> c.ok,
                            before |-> slots]
    /\ UNCHANGED <<config_vars, schema, pypy, depth, stack, phase, error, raised_by, inner,
                   cont, self_clone, validator, final_slots, calls>>

NextContext ==
    \/ \E slot_ref \in SlotNames : PrepareSlot(slot_ref)
    \/ \E slot_id \in 0..MaxSlots, v \in SlotValidators : CompleteSlot(slot_id, v)

SpecContext == InitContext /\ [][NextContext]_vars

\* C7 as stated: complete_slot on a slot that is already filled fails and
\* leaves the slot as it was; complete_slot with an id that was never
\* reserved fails and leaves the table unchanged.
C7_CompleteSlotGuards ==
    last_call.op = "complete_slot" =>
        LET reserved == last_call.id < Len(last_call.before)
        IN  /\ (reserved /\ last_call.before[last_call.id + 1].validator # <<>>) =>
                  (~last_call.ok /\ slots = last_call.before)
            /\ ~reserved => (~last_call.ok /\ slots = last_call.before)

\* C7 divergence: complete_slot succeeds on every reserved slot, filled or
\* not, and the slot then holds the validator of this call; only an id that
\* was never reserved fails, leaving the table unchanged.
CompleteSlotOverwrites ==
    last_call.op = "complete_slot" =>
        IF last_call.id < Len(last_call.before)
        THEN /\ last_call.ok
             /\ slots[last_call.id + 1].validator # <<>>
             /\ slots[last_call.id + 1].ref = last_call.before[last_call.id + 1].ref
        ELSE ~last_call.ok /\ slots = last_call.before

(***************************************************************************)
(* Validation.  The inputs are Python objects with identity, kept in one   *)
(* table: `f` is the value under the key "f" of a dict (0 = no such key),  *)
(* `items` the members of a collection, `is_type` what input.is_type(class)*)
(* gives for the class of the model-class validator ("raises": the host    *)
(* call fails), `text` what a str, bytes or bytearray holds and `json` the *)
(* JsonInput that serde_json makes of it.                                  *)
(***************************************************************************)
PyObj(kind) ==
    [kind |-> kind, is_type |-> "no", f |-> 0, items |-> <<>>, text |-> "", json |-> 0]

Objects ==
    << PyObj("int"),                                        \* 1
       [PyObj("dict") EXCEPT !.f = 2],                      \* 2: d = {}; d["f"] = d
       [PyObj("dict") EXCEPT !.f = 4],                      \* 3: {"f": {}}
       PyObj("dict"),                                       \* 4: {}
       [PyObj("instance") EXCEPT !.is_type = "yes"],        \* 5: an instance of the class
       [PyObj("instance") EXCEPT !.is_type = "raises"],     \* 6: comparing its type fails
       [PyObj("frozenset") EXCEPT !.items = <<1>>],         \* 7: frozenset({1})
       [PyObj("list") EXCEPT !.items = <<1>>],              \* 8: [1]
       [PyObj("str") EXCEPT !.text = "json", !.json = 13],  \* 9: '{"f": 1}'
       [PyObj("str") EXCEPT !.text = "invalid_json"],       \* 10: '{'
       [PyObj("str") EXCEPT !.text = "not_utf8"],           \* 11: '\ud800'
       [PyObj("bytes") EXCEPT !.text = "json", !.json = 14],       \* 12: b'1'
       [PyObj("dict") EXCEPT !.f = 14],                     \* 13: JsonInput {"f": 1}
       PyObj("int") >>                                      \* 14: JsonInput 1

\* the arguments of the calls
PythonInputs == {1, 2, 3, 5, 6, 7, 8}

JsonPayloads == {1, 9, 10, 11, 12}

StrictArgs == {<<>>, <<TRUE>>, <<FALSE>>}

\* ValResult
Ok(made, of) == [tag |-> "Ok", kind |-> "", made |-> made, of |-> of]

LineErrors(kind) == [tag |-> "LineErrors", kind |-> kind, made |-> "", of |-> 0]

InternalErr(kind) == [tag |-> "InternalErr", kind |-> kind, made |-> "", of |-> 0]

\* not a result: the validator goes on with the validator it owns
Descends == [tag |-> "Descends", kind |-> "", made |-> "", of |-> 0]

\* Extra::new(strict), mod.rs:320-327
ExtraNew(strict) == [data |-> 0, field |-> "", strict |-> strict]

\* the Extra of validate_assignment, mod.rs:145-149
ExtraAssignment(field, data) == [data |-> data, field |-> field, strict |-> <<>>]

\* extra.strict.unwrap_or(self.strict)
EffectiveStrict(extra, self_strict) ==
    IF extra.strict = <<>> THEN self_strict ELSE extra.strict[1]

\* mutant: the strict mode is looked at before the type of the input
ModelClassValidateStrictFirst(self, input, extra) ==
    IF EffectiveStrict(extra, self.strict) THEN LineErrors("ModelClassType")
    ELSE IF Objects[input].is_type = "raises" THEN InternalErr("is_type")
    ELSE IF Objects[input].is_type = "yes" THEN Ok("same", input)
    ELSE Descends

\* ModelClassValidator::validate up to the call of the inner validator,
\* model_class.rs:72-82
model_class_validate(self, input, extra) ==
    IF Objects[input].is_type = "raises" THEN InternalErr("is_type")
    ELSE IF Objects[input].is_type = "yes" THEN Ok("same", input)
    ELSE IF EffectiveStrict(extra, self.strict) THEN LineErrors("ModelClassType")
    ELSE Descends

\* ModelClassValidator::validate after the inner validator, model_class.rs:
\* 83-84: its error is returned, its output made an instance of the class
create_class(input, output) ==
    IF output.tag = "Ok" THEN Ok("model", input) ELSE output

\* input.validate_frozenset(strict): a frozenset, or in lax mode any of the
\* collections that is made one
validate_frozenset(input, strict) ==
    IF Objects[input].kind = "frozenset" THEN TRUE
    ELSE IF strict THEN FALSE
    ELSE Objects[input].kind \in {"list", "set", "tuple"}

\* mutant: an internal error of the validator is a plain `false`
IsInstanceSwallowsInternal(r) ==
    IF r.tag = "Ok" THEN [res |-> "Ok", what |-> "true", kind |-> "", of |-> 0]
    ELSE [res |-> "Ok", what |-> "false", kind |-> "", of |-> 0]

\* the match of isinstance_python and isinstance_json, mod.rs:99-101, 135-137
IsInstanceResult(r) ==
    IF r.tag = "Ok" THEN [res |-> "Ok", what |-> "true", kind |-> "", of |-> 0]
    ELSE IF r.tag = "InternalErr"
    THEN [res |-> "Err", what |-> "host", kind |-> r.kind, of |-> 0]
    ELSE [res |-> "Ok", what |-> "false", kind |-> "", of |-> 0]

\* r.map_err(|e| self.prepare_validation_err(py, e)), mod.rs:88
ValidateResult(r) ==
    IF r.tag = "Ok" THEN [res |-> "Ok", what |-> r.made, kind |-> "", of |-> r.of]
    ELSE IF r.tag = "InternalErr"
    THEN [res |-> "Err", what |-> "host", kind |-> r.kind, of |-> 0]
    ELSE [res |-> "Err", what |-> "ValidationError", kind |-> r.kind, of |-> 0]

\* parse_json, mod.rs:171-183: "type_error" and "to_str_error" are the Err
\* of the PyResult, "invalid_json" the Err of the serde_json::Result in it
parse_json(input) ==
    IF Objects[input].kind \notin {"bytes", "str", "bytearray"} THEN "type_error"
    ELSE IF Objects[input].kind = "str" /\ Objects[input].text = "not_utf8"
    THEN "to_str_error"
    ELSE IF Objects[input].text = "json" THEN "json"
    ELSE "invalid_json"

JsonEntries == {"validate_json", "isinstance_json"}

IsInstanceEntries == {"isinstance_python", "isinstance_json"}

\* what an entry point returns when parse_json gave no JsonInput
ParseFailure(entry, parsed) ==
    IF parsed \in {"type_error", "to_str_error"}
    THEN [res |-> "Err", what |-> "host", kind |-> parsed, of |-> 0]
    ELSE IF entry = "isinstance_json"
    THEN [res |-> "Ok", what |-> "false", kind |-> "", of |-> 0]
    ELSE ValidateResult(LineErrors("InvalidJson"))

\* what an entry point makes of the result of the root validator
EntryResult(entry, r) ==
    IF entry \in IsInstanceEntries THEN IsInstanceResult(r) ELSE ValidateResult(r)

(***************************************************************************)
(* A validation call, mod.rs:80-154.  Each caller runs its call as its own *)
(* stack of Validator::validate calls: a frame is one call of validate on  *)
(* the validator At(via, node) with `input`; pc = "enter" at its start and *)
(* "wait" while the validator it called runs; `ret` holds what the frame   *)
(* that returned last gave.  The steps of the callers interleave.          *)
(***************************************************************************)
VFrame(via, n, input) ==
    [via |-> via, node |-> n, input |-> input, pc |-> "enter", idx |-> 0, errs |-> ""]

CTop(c) == calls[c].stack[Len(calls[c].stack)]

CVal(c) == At(CTop(c).via, CTop(c).node)

\* the top frame of call cr calls validate on the validator at (via, n)
Descend(cr, via, n, input) ==
    [cr EXCEPT !.stack = Append([cr.stack EXCEPT ![Len(cr.stack)].pc = "wait"],
                                VFrame(via, n, input)),
               !.ret = <<>>]

\* call cr with the fields idx and errs of its top frame set
Count(cr, idx, errs) ==
    [cr EXCEPT !.stack = [cr.stack EXCEPT ![Len(cr.stack)] =
                            [cr.stack[Len(cr.stack)] EXCEPT !.idx = idx, !.errs = errs]]]

\* call cr with its guard set
WithGuard(cr, guard) == [cr EXCEPT !.guard = guard]

\* the top frame of call cr returns r
Answer(cr, r) ==
    [cr EXCEPT !.stack = SubSeq(cr.stack, 1, Len(cr.stack) - 1), !.ret = <<r>>]

\* mutant: one guard for all the calls
GuardSeenShared(cs, c) == UNION {cs[d].guard : d \in Callers}

\* the RecursionGuard a call hands down: its own, made by the entry point
\* (&mut RecursionGuard::default(), mod.rs:86, 97, 113, 132, 152)
GuardSeenBy(cs, c) == cs[c].guard

CanCall(c) == phase = "done" /\ calls[c].state = "idle"

\* the call of the root validator by an entry point
StartCall(entry, arg, input, strict, extra) ==
    [IdleCall EXCEPT !.state = "running", !.entry = entry, !.input = arg,
                     !.strict = strict, !.extra = <<extra>>,
                     !.stack = <<VFrame(Via(validator[1]), validator[1], input)>>]

\* an entry point that returns without calling the root validator
FailCall(entry, arg, strict, parsed) ==
    [IdleCall EXCEPT !.state = "returned", !.entry = entry, !.input = arg,
                     !.strict = strict, !.parsed = parsed,
                     !.result = <<ParseFailure(entry, parsed)>>]

OnlyCalls == UNCHANGED <<config_vars, build_vars, last_call>>

\* SchemaValidator::validate_python, mod.rs:80-89
validate_python(c, input, strict) ==
    /\ CanCall(c)
    /\ calls' = [calls EXCEPT ![c] =
                    StartCall("validate_python", input, input, strict, ExtraNew(strict))]
    /\ OnlyCalls

\* SchemaValidator::isinstance_python, mod.rs:91-103
isinstance_python(c, input, strict) ==
    /\ CanCall(c)
    /\ calls' = [calls EXCEPT ![c] =
                    StartCall("isinstance_python", input, input, strict, ExtraNew(strict))]
    /\ OnlyCalls

\* validate_json and isinstance_json begin with parse_json(input)
JsonCall(entry, input, strict) ==
    IF parse_json(input) = "json"
    THEN [StartCall(entry, input, Objects[input].json, strict, ExtraNew(strict))
            EXCEPT !.parsed = "json"]
    ELSE FailCall(entry, input, strict, parse_json(input))

\* SchemaValidator::validate_json, mod.rs:105-123
validate_json(c, input, strict) ==
    /\ CanCall(c)
    /\ calls' = [calls EXCEPT ![c] = JsonCall("validate_json", input, strict)]
    /\ OnlyCalls

\* SchemaValidator::isinstance_json, mod.rs:125-142
isinstance_json(c, input, strict) ==
    /\ CanCall(c)
    /\ calls' = [calls EXCEPT ![c] = JsonCall("isinstance_json", input, strict)]
    /\ OnlyCalls

\* SchemaValidator::validate_assignment, mod.rs:144-154
validate_assignment(c, field, input, data) ==
    /\ CanCall(c)
    /\ calls' = [calls EXCEPT ![c] =
                    StartCall("validate_assignment", input, input, <<>>,
                              ExtraAssignment(field, data))]
    /\ OnlyCalls

\* the root validator has returned: the entry point returns
EntryReturns(c) ==
    /\ calls[c].state = "running"
    /\ calls[c].stack = <<>>
    /\ calls' = [calls EXCEPT ![c] =
                    [calls[c] EXCEPT
                        !.state = "returned", !.root = calls[c].ret, !.ret = <<>>,
                        !.result = <<EntryResult(calls[c].entry, calls[c].ret[1])>>]]
    /\ OnlyCalls

\* call c is in a validator of these kinds, at its start or with the result
\* of the validator it called
Validating(c, kinds, pc) ==
    /\ calls[c].state = "running"
    /\ calls[c].stack # <<>>
    /\ CTop(c).pc = pc
    /\ CVal(c).kind \in kinds

\* IntValidator::validate
IntValidate(c) ==
    /\ Validating(c, {"Int"}, "enter")
    /\ calls' = [calls EXCEPT ![c] =
                    Answer(calls[c], IF Objects[CTop(c).input].kind = "int"
                                     THEN Ok("int", CTop(c).input)
                                     ELSE LineErrors("IntType"))]
    /\ OnlyCalls

\* FrozenSetValidator::validate, frozenset.rs:35-36: the collection is
\* taken in the effective mode
FrozenSetValidate(c) ==
    /\ Validating(c, {"FrozenSet"}, "enter")
    /\ LET input == CTop(c).input
           item == CVal(c).kids[1]
       IN  calls' = [calls EXCEPT ![c] =
              IF ~validate_frozenset(input,
                                     EffectiveStrict(calls[c].extra[1], CVal(c).strict))
              THEN Answer(calls[c], LineErrors("FrozenSetType"))
              ELSE IF Objects[input].items = <<>>
              THEN Answer(calls[c], Ok("frozenset", input))
              ELSE Descend(Count(calls[c], 1, ""), Via(item), item,
                           Objects[input].items[1])]
    /\ OnlyCalls

\* FrozenSetValidator::validate, frozenset.rs:37-46: validate_to_set runs
\* the item validator on every member; an internal error ends it, line
\* errors are collected
FrozenSetItemReturned(c) ==
    /\ Validating(c, {"FrozenSet"}, "wait")
    /\ LET top == CTop(c)
           r == calls[c].ret[1]
           item == CVal(c).kids[1]
           errs == IF top.errs = "" /\ r.tag = "LineErrors" THEN r.kind ELSE top.errs
       IN  calls' = [calls EXCEPT ![c] =
              IF r.tag = "InternalErr" THEN Answer(calls[c], r)
              ELSE IF top.idx < Len(Objects[top.input].items)
              THEN Descend(Count(calls[c], top.idx + 1, errs), Via(item), item,
                           Objects[top.input].items[top.idx + 1])
              ELSE Answer(calls[c], IF errs = "" THEN Ok("frozenset", top.input)
                                    ELSE LineErrors(errs))]
    /\ OnlyCalls

\* TypedDictValidator::validate: the input must be a dict; the schemas
\* validated have one field, "f", which is not required
TypedDictValidate(c) ==
    /\ Validating(c, {"Model"}, "enter")
    /\ LET input == CTop(c).input
           field == CVal(c).kids[1]
       IN  calls' = [calls EXCEPT ![c] =
              IF Objects[input].kind # "dict"
              THEN Answer(calls[c], LineErrors("DictType"))
              ELSE IF Objects[input].f = 0
              THEN Answer(calls[c], Ok("typed-dict", input))
              ELSE Descend(calls[c], Via(field), field, Objects[input].f)]
    /\ OnlyCalls

\* ... the output is (dict, fields_set), or the errors of the field
TypedDictFieldReturned(c) ==
    /\ Validating(c, {"Model"}, "wait")
    /\ calls' = [calls EXCEPT ![c] =
                    Answer(calls[c], IF calls[c].ret[1].tag = "Ok"
                                     THEN Ok("typed-dict", CTop(c).input)
                                     ELSE calls[c].ret[1])]
    /\ OnlyCalls

\* ModelClassValidator::validate, model_class.rs:64-82
ModelClassValidate(c) ==
    /\ Validating(c, {"ModelClass"}, "enter")
    /\ LET r == model_class_validate(CVal(c), CTop(c).input, calls[c].extra[1])
           sub == CVal(c).kids[1]
       IN  calls' = [calls EXCEPT ![c] =
              IF r = Descends THEN Descend(calls[c], Via(sub), sub, CTop(c).input)
              ELSE Answer(calls[c], r)]
    /\ OnlyCalls

\* ModelClassValidator::validate, model_class.rs:83-84
ModelClassCreateClass(c) ==
    /\ Validating(c, {"ModelClass"}, "wait")
    /\ calls' = [calls EXCEPT ![c] = Answer(calls[c], create_class(CTop(c).input, calls[c].ret[1]))]
    /\ OnlyCalls

\* RecursiveContainerValidator::validate: the validator of its slot runs
RecursiveContainerValidate(c) ==
    /\ Validating(c, {"Recursive"}, "enter")
    /\ calls' = [calls EXCEPT ![c] =
                    Descend(calls[c], "inner", final_slots[CVal(c).validator_id + 1],
                            CTop(c).input)]
    /\ OnlyCalls

RecursiveContainerReturned(c) ==
    /\ Validating(c, {"Recursive"}, "wait")
    /\ calls' = [calls EXCEPT ![c] = Answer(calls[c], calls[c].ret[1])]
    /\ OnlyCalls

\* RecursiveRefValidator::validate: the pair (slot id, input identity) is
\* looked up in the guard of the call, and registered while the slot runs
RecursiveRefValidate(c) ==
    /\ Validating(c, {"RecursiveRef"}, "enter")
    /\ LET pair == <<CVal(c).validator_id, CTop(c).input>>
       IN  calls' = [calls EXCEPT ![c] =
              IF pair \in GuardSeenBy(calls, c)
              THEN Answer(calls[c], LineErrors("RecursionLoop"))
              ELSE Descend(WithGuard(calls[c], calls[c].guard \cup {pair}),
                           "inner", final_slots[CVal(c).validator_id + 1],
                           CTop(c).input)]
    /\ OnlyCalls

\* ... and removed when the slot has returned
RecursiveRefReturned(c) ==
    /\ Validating(c, {"RecursiveRef"}, "wait")
    /\ calls' = [calls EXCEPT ![c] =
                    Answer(WithGuard(calls[c], calls[c].guard
                                                \ {<<CVal(c).validator_id, CTop(c).input>>}),
                           calls[c].ret[1])]
    /\ OnlyCalls

(***************************************************************************)
(* Specification of the facade: a schema is compiled by py_new, then the   *)
(* callers validate with the SchemaValidator it returned, each caller one  *)
(* call, their steps interleaved.                                          *)
(***************************************************************************)
ValidateSchemas ==
    {Tree1(ModelClassSchema(NoKey, None, strict),
           Tree1(TypedDictSchema(NoKey, TRUE), Tree0(SchemaDict("int", NoKey)))) :
        strict \in BOOLEAN}
        \cup {Tree1(TypedDictSchema("A", TRUE), Tree0(RecursiveRefSchema(NoKey, "A"))),
              Tree1(SchemaDict("frozenset", NoKey), Tree0(SchemaDict("int", NoKey)))}

InitValidate ==
    /\ pypy = FALSE
    /\ schema \in ValidateSchemas
    /\ dicts = <<>>
    /\ parent_config = None
    /\ child_config = None
    /\ effective = None
    /\ before = dicts
    /\ nbuilds = 0
    /\ slots = <<>>
    /\ depth = 0
    /\ stack = <<Frame("call", "", 1, parent_config)>>
    /\ phase = "build_validator"
    /\ error = ""
    /\ raised_by = ""
    /\ inner = [n \in 1..Len(schema) |-> <<>>]
    /\ cont = [n \in 1..Len(schema) |-> <<>>]
    /\ self_clone = [slots |-> <<>>, inner |-> <<>>]
    /\ validator = <<>>
    /\ final_slots = <<>>
    /\ IdleCalls

NextValidate ==
    \/ Next
    \/ \E c \in Callers, input \in PythonInputs, strict \in StrictArgs :
          \/ validate_python(c, input, strict)
          \/ isinstance_python(c, input, strict)
    \/ \E c \in Callers, input \in JsonPayloads, strict \in StrictArgs :
          \/ validate_json(c, input, strict)
          \/ isinstance_json(c, input, strict)
    \/ \E c \in Callers, input \in PythonInputs : validate_assignment(c, "f", input, 4)
    \/ \E c \in Callers :
          \/ IntValidate(c)
          \/ FrozenSetValidate(c)
          \/ FrozenSetItemReturned(c)
          \/ TypedDictValidate(c)
          \/ TypedDictFieldReturned(c)
          \/ ModelClassValidate(c)
          \/ ModelClassCreateClass(c)
          \/ RecursiveContainerValidate(c)
          \/ RecursiveContainerReturned(c)
          \/ RecursiveRefValidate(c)
          \/ RecursiveRefReturned(c)
          \/ EntryReturns(c)

SpecValidate == InitValidate /\ [][NextValidate]_vars

(***************************************************************************)
(* Properties of the facade.                                               *)
(***************************************************************************)
Returned == {c \in Callers : calls[c].state = "returned"}

\* the input the root validator of a call gets
RootInput(cr) == IF cr.entry \in JsonEntries THEN Objects[cr.input].json ELSE cr.input

\* the root validator is a model-class validator and has returned to c
ModelClassReturned(c) ==
    /\ c \in Returned
    /\ calls[c].root # <<>>
    /\ At(Via(validator[1]), validator[1]).kind = "ModelClass"

\* the effective mode of the root validator in the call of c
RootStrict(c) ==
    EffectiveStrict(calls[c].extra[1], At(Via(validator[1]), validator[1]).strict)

\* C1 as stated: an instance of the class is returned unchanged in lax mode
\* and rejected with ModelClassType in strict mode.
C1_InstanceRejectedWhenStrict ==
    \A c \in Callers :
        (ModelClassReturned(c) /\ Objects[RootInput(calls[c])].is_type = "yes") =>
            calls[c].root[1] = IF RootStrict(c) THEN LineErrors("ModelClassType")
                               ELSE Ok("same", RootInput(calls[c]))

\* C1: the model-class validator returns an input that is an instance of the
\* class unchanged in lax and in strict mode alike; ModelClassType is the
\* result for an input that is no instance when the effective mode (the
\* call's strict if given, else the validator's) is strict, and never the
\* result in lax mode, where the output of the inner validator is made a
\* new instance of the class.
C1_InstancePassesInBothModes ==
    \A c \in Callers :
        ModelClassReturned(c) =>
            LET input == RootInput(calls[c])
                r == calls[c].root[1]
            IN  /\ Objects[input].is_type = "yes" => r = Ok("same", input)
                /\ (Objects[input].is_type = "no" /\ RootStrict(c)) =>
                      r = LineErrors("ModelClassType")
                /\ (Objects[input].is_type = "no" /\ ~RootStrict(c)) =>
                      (r.tag = "Ok" => r = Ok("model", input))
                /\ r = LineErrors("ModelClassType") =>
                      (Objects[input].is_type = "no" /\ RootStrict(c))

\* C1 witness: validate_python(instance, strict=True) on a model-class
\* validator that is lax itself has returned the instance.
C1_Witness ==
    \E c \in Callers :
        /\ ModelClassReturned(c)
        /\ calls[c].entry = "validate_python"
        /\ Objects[calls[c].input].is_type = "yes"
        /\ calls[c].strict = <<TRUE>>
        /\ ~At(Via(validator[1]), validator[1]).strict
        /\ RootStrict(c)
        /\ calls[c].result = <<[res |-> "Ok", what |-> "same", kind |-> "",
                                of |-> calls[c].input]>>

\* C4: isinstance_python and isinstance_json return true exactly when the
\* root validator returned Ok, and false exactly when it returned line
\* errors or, for isinstance_json, when the payload is text that is not
\* JSON; an InternalErr of the root validator and a payload that is no
\* str, bytes or bytearray (or a str that cannot be encoded) come back to
\* the caller as that error.
C4_IsInstanceNeverSwallowsHostErrors ==
    \A c \in Returned :
        calls[c].entry \in IsInstanceEntries =>
            LET r == calls[c].result[1]
                root == calls[c].root
                parsed == IF calls[c].entry = "isinstance_json"
                          THEN parse_json(calls[c].input) ELSE "json"
            IN  /\ parsed \in {"type_error", "to_str_error"} =>
                      (root = <<>> /\ r.res = "Err" /\ r.what = "host" /\ r.kind = parsed)
                /\ parsed = "invalid_json" =>
                      (root = <<>> /\ r.res = "Ok" /\ r.what = "false")
                /\ parsed = "json" =>
                      /\ root # <<>>
                      /\ root[1].tag = "Ok" => (r.res = "Ok" /\ r.what = "true")
                      /\ root[1].tag = "LineErrors" => (r.res = "Ok" /\ r.what = "false")
                      /\ root[1].tag = "InternalErr" =>
                            (r.res = "Err" /\ r.what = "host" /\ r.kind = root[1].kind)

\* C4 witness: isinstance_python has raised the error of the host where the
\* root validator returned an InternalErr, and an isinstance_json with a
\* payload that is not JSON has returned false.
C4_Witness ==
    /\ \E c \in Returned :
          /\ calls[c].entry = "isinstance_python"
          /\ calls[c].root # <<>>
          /\ calls[c].root[1].tag = "InternalErr"
          /\ calls[c].result[1].res = "Err"
    /\ \E c \in Returned :
          /\ calls[c].entry = "isinstance_json"
          /\ parse_json(calls[c].input) = "invalid_json"
          /\ calls[c].result[1].what = "false"

\* the result of validate on the validator at (via, n), run to its end with
\* no other call about: the recursive descent of the validators
RECURSIVE ValidateAlone(_, _, _, _, _)
RECURSIVE ValidateItemsAlone(_, _, _, _, _, _)
ValidateAlone(via, n, input, extra, guard) ==
    LET v == At(via, n)
    IN  IF v.kind = "Int"
        THEN IF Objects[input].kind = "int" THEN Ok("int", input) ELSE LineErrors("IntType")
        ELSE IF v.kind = "FrozenSet"
        THEN IF ~validate_frozenset(input, EffectiveStrict(extra, v.strict))
             THEN LineErrors("FrozenSetType")
             ELSE ValidateItemsAlone(v.kids[1], input, 1, "", extra, guard)
        ELSE IF v.kind = "Model"
        THEN IF Objects[input].kind # "dict" THEN LineErrors("DictType")
             ELSE IF Objects[input].f = 0 THEN Ok("typed-dict", input)
             ELSE LET r == ValidateAlone(Via(v.kids[1]), v.kids[1], Objects[input].f,
                                         extra, guard)
                  IN  IF r.tag = "Ok" THEN Ok("typed-dict", input) ELSE r
        ELSE IF v.kind = "ModelClass"
        THEN LET r == model_class_validate(v, input, extra)
             IN  IF r # Descends THEN r
                 ELSE create_class(input, ValidateAlone(Via(v.kids[1]), v.kids[1], input,
                                                        extra, guard))
        ELSE IF v.kind = "Recursive"
        THEN ValidateAlone("inner", final_slots[v.validator_id + 1], input, extra, guard)
        ELSE IF <<v.validator_id, input>> \in guard
        THEN LineErrors("RecursionLoop")
        ELSE ValidateAlone("inner", final_slots[v.validator_id + 1], input, extra,
                           guard \cup {<<v.validator_id, input>>})

\* the members of `input` from the idx-th on, through the item validator
ValidateItemsAlone(item, input, idx, errs, extra, guard) ==
    IF idx > Len(Objects[input].items)
    THEN IF errs = "" THEN Ok("frozenset", input) ELSE LineErrors(errs)
    ELSE LET r == ValidateAlone(Via(item), item, Objects[input].items[idx], extra, guard)
         IN  IF r.tag = "InternalErr" THEN r
             ELSE ValidateItemsAlone(item, input, idx + 1,
                                     IF errs = "" /\ r.tag = "LineErrors" THEN r.kind
                                     ELSE errs,
                                     extra, guard)

\* the Extra an entry point makes for its call
FreshExtra(cr) ==
    IF cr.entry = "validate_assignment" THEN ExtraAssignment("f", 4)
    ELSE ExtraNew(cr.strict)

\* what the call returns when it runs alone
CallAlone(cr) ==
    IF cr.entry \in JsonEntries /\ parse_json(cr.input) # "json"
    THEN ParseFailure(cr.entry, parse_json(cr.input))
    ELSE EntryResult(cr.entry,
                     ValidateAlone(Via(validator[1]), validator[1], RootInput(cr),
                                   FreshExtra(cr), {}))

\* the pairs that the recursive-ref validators of a call have registered
\* and not yet removed
Registered(cr) ==
    {<<At(cr.stack[i].via, cr.stack[i].node).validator_id, cr.stack[i].input>> :
        i \in {j \in 1..Len(cr.stack) :
                 /\ At(cr.stack[j].via, cr.stack[j].node).kind = "RecursiveRef"
                 /\ cr.stack[j].pc = "wait"}}

\* a call has its own Extra and guard, and returns what it returns alone
CallsIsolated ==
    \A c \in Callers :
        /\ calls[c].state = "running" =>
              /\ calls[c].extra = <<FreshExtra(calls[c])>>
              /\ calls[c].guard = Registered(calls[c])
        /\ calls[c].state = "returned" =>
              /\ calls[c].guard = {}
              /\ calls[c].result = <<CallAlone(calls[c])>>

\* a validation step leaves the SchemaValidator as py_new made it
ValidatorFrozen ==
    phase = "done" => UNCHANGED <<schema, validator, final_slots, slots, inner, cont>>

\* C10: every entry point makes its own Extra and an empty guard; the guard
\* of a call holds the pairs of its own recursive-ref frames and nothing
\* else; no step of a call changes the validator tree or the slots; so under
\* every interleaving a call returns what it returns when run alone.
C10_CallsIndependent == [](CallsIsolated) /\ [][ValidatorFrozen]_vars

\* C10 witness: both callers are inside the recursive-ref validator on the
\* same cyclic input at once, through different entry points, each with the
\* pair in its own guard.
C10_Witness ==
    /\ \A c \in Callers : calls[c].state = "running" /\ calls[c].input = 2
    /\ \A c \in Callers : calls[c].guard = {<<0, 2>>}
    /\ calls["a"].entry = "validate_python"
    /\ calls["b"].entry = "isinstance_python"

(***************************************************************************)
(* Properties of the slots of a compilation.                               *)
(***************************************************************************)
\* the schema nodes that carry a `ref`, and how many of them come before
\* node n in pre-order
RefNodes == {n \in 1..Len(schema) : Dict(n).ref # NoKey}

RefsBefore(n) == Cardinality({m \in RefNodes : m < n})

\* the last node of the body of node n: the nodes of a schema are numbered
\* in pre-order, so the body of n is n..SubtreeEnd(n)
SubtreeEnd(n) ==
    CHOOSE e \in n..Len(schema) :
        /\ \A i \in n..e : \A j \in 1..Len(schema[i].kids) : schema[i].kids[j] <= e
        /\ \A d \in n..(e - 1) :
              \E i \in n..d : \E j \in 1..Len(schema[i].kids) : schema[i].kids[j] > d

\* py_new is in build_validator, or has failed there
InTreeBuild ==
    \/ phase = "build_validator"
    \/ phase = "failed" /\ stack # <<>> /\ Top.pc \in {"call", "build", "ret"}

\* C11: a node with a `ref` gets its slot on entry, before its builder runs:
\* the slot has the next id in pre-order of the `ref` nodes and the node's
\* name; while the builder of the node runs the slot is reserved and
\* unfilled (find_slot_id by its name succeeds, get_validator of its id
\* fails); the slot is filled once the builder has returned, with what the
\* builder returned, and then every slot reserved inside the body is filled
\* already; the container returned holds the slot id and the name of the
\* validator built.
C11_ReserveBuildFillReturn ==
    /\ InTreeBuild =>
          \A i \in 1..Len(stack) :
              LET fr == stack[i]
                  d == Dict(fr.node)
              IN  (d.ref # NoKey /\ fr.pc \in {"build", "ret"}) =>
                      /\ fr.slot_id = RefsBefore(fr.node)
                      /\ fr.slot_id < Len(slots)
                      /\ slots[fr.slot_id + 1] = [ref |-> d.ref, validator |-> <<>>]
                      /\ find_slot_id(slots, d.ref).ok
                      /\ get_validator(slots, fr.slot_id).res = "not_yet_filled"
                      /\ cont[fr.node] = <<>>
                      /\ (fr.pc = "build") = (inner[fr.node] = <<>>)
    /\ \A k \in 1..Len(slots) :
          \E n \in RefNodes :
              /\ RefsBefore(n) = k - 1
              /\ slots[k].ref = Dict(n).ref
              /\ slots[k].validator \in {<<>>, <<n>>}
              /\ slots[k].validator = <<n>> =>
                    /\ inner[n] # <<>>
                    /\ \A m \in RefNodes :
                          (m > n /\ m <= SubtreeEnd(n)) =>
                              (RefsBefore(m) < Len(slots)
                                 /\ slots[RefsBefore(m) + 1].validator = <<m>>)
    /\ \A n \in 1..Len(schema) :
          cont[n] # <<>> =>
              /\ n \in RefNodes
              /\ cont[n][1].kind = "Recursive"
              /\ cont[n][1].validator_id = RefsBefore(n)
              /\ slots[RefsBefore(n) + 1].validator = <<n>>
              /\ cont[n][1].name = inner[n][1].name

\* C11 witness: inside the body of the typed-dict with ref "A" the int with
\* ref "B" is built and its slot 1 filled, and the recursive-ref to "A" has
\* found slot 0, which is reserved and not filled.
C11_Witness ==
    /\ phase = "build_validator"
    /\ Len(stack) = 2
    /\ stack[1].slot_id = 0
    /\ Top.pc = "ret"
    /\ inner[Top.node] = <<RecursiveRefValidator(0)>>
    /\ Len(slots) = 2
    /\ slots[1] = [ref |-> "A", validator |-> <<>>]
    /\ slots[2].ref = "B"
    /\ slots[2].validator # <<>>
    /\ cont[slots[2].validator[1]] # <<>>
    /\ get_validator(slots, 0).res = "not_yet_filled"

\* the node of the k-th `ref` of the schema in pre-order
RefNode(k) == CHOOSE n \in RefNodes : RefsBefore(n) = k - 1

\* build_validator has returned Ok to py_new
TreeBuilt == phase \in {"complete_validators", "complete_root", "into_slots", "done"}

\* no unfilled or unknown slot is ever met: by complete_slot, by the hooks
\* of the completion pass, by complete_validators or by into_slots
NoSlotError ==
    /\ error \notin {"slot_not_yet_filled", "slot_not_found"}
    /\ raised_by \notin {"complete_slot", "get_validator", "complete_validators",
                         "into_slots"}

\* once build_validator has returned, there is one slot for each `ref` of
\* the schema, in pre-order, filled with the validator built for it
SlotsFilledInOrder ==
    /\ NoSlotError
    /\ TreeBuilt =>
          /\ Len(slots) = Cardinality(RefNodes)
          /\ \A k \in 1..Len(slots) :
                slots[k] = [ref |-> Dict(RefNode(k)).ref, validator |-> <<RefNode(k)>>]
    /\ phase = "done" =>
          /\ Len(final_slots) = Len(slots)
          /\ \A k \in 1..Len(slots) :
                /\ final_slots[k] = RefNode(k)
                /\ inner[final_slots[k]] # <<>>
                /\ cont[final_slots[k]][1].validator_id = k - 1

\* a step reserves at the end of the slots, keeps the names, and writes no
\* slot that is filled
SlotsFilledOnce ==
    /\ Len(slots') >= Len(slots)
    /\ \A k \in 1..Len(slots) :
          /\ slots'[k].ref = slots[k].ref
          /\ slots[k].validator # <<>> => slots'[k] = slots[k]

\* C12: when build_validator has returned Ok, every slot reserved is filled,
\* and was filled once; neither the completion pass nor into_slots fails on
\* a slot; the frozen sequence has one entry for each slot reserved, in the
\* order of reservation, the i-th being the validator built for the i-th
\* `ref` of the schema, also when two of them have the same name.
C12_EverySlotFilledOnce == [](SlotsFilledInOrder) /\ [][SlotsFilledOnce]_vars

\* C12 witness: a model-class and the typed-dict in it both have the ref
\* "A"; py_new has returned with the two slots frozen in that order.
C12_Witness ==
    /\ phase = "done"
    /\ Len(slots) = 2
    /\ slots[1].ref = "A"
    /\ slots[2].ref = "A"
    /\ final_slots = <<1, 2>>
    /\ Dict(1).type = "model-class"
    /\ Dict(2).type = "typed-dict"

(***************************************************************************)
(* Frame of the config resolver.                                           *)
(***************************************************************************)
\* C13 as stated: build_config leaves the parent's config and the `config`
\* of the schema as they were.
C13_ConfigsUnchanged ==
    nbuilds > 0 => \A id \in DictIds : dicts[id] = before[id]

\* C13 divergence: build_config writes into a dict exactly when both configs
\* are present, are two dicts, tie on the choose priority and differ in what
\* the merge target gets; the dict written is the one it returns: the
\* child's when the parent's merge priority is strictly higher, else the
\* parent's, which every later sibling is then resolved against.
ConfigWrittenOnTie ==
    (nbuilds > 0 /\ dicts # before) =>
        /\ BothPresent
        /\ parent_config # child_config
        /\ ChooseOf(parent_config) = ChooseOf(child_config)
        /\ dicts[effective] # before[effective]
        /\ effective = IF MergeOf(parent_config) > MergeOf(child_config)
                       THEN child_config ELSE parent_config
        /\ \A id \in DictIds \ {effective} : dicts[id] = before[id]

(***************************************************************************)
(* The depth counter and the nesting of the schema.                        *)
(***************************************************************************)
\* the calls of build_validator that have passed incr_check_depth and not
\* yet returned: the schema nodes being compiled
BeingCompiled == {i \in 1..Len(stack) : stack[i].pc \in {"build", "ret"}}

\* the stack holds the node entered and its ancestors, outermost first, so
\* its length is the nesting level of the node on top
StackIsAncestry ==
    /\ stack[1].node = 1
    /\ \A i \in 1..(Len(stack) - 1) :
          /\ stack[i].pc = "build"
          /\ \E j \in 1..Len(schema[stack[i].node].kids) :
                schema[stack[i].node].kids[j] = stack[i + 1].node

\* C14: while build_validator runs, the depth counter is the number of
\* schema nodes being compiled, which is the nesting level of the innermost
\* of them (the node just entered counts once its type tag is matched); it
\* is 0 again when the top-level call has returned Ok; siblings compiled
\* before add nothing; and compilation fails with depth-exceeded only on a
\* node nested more than MAX_DEPTH levels deep.
C14_DepthIsNestingLevel ==
    /\ phase = "build_validator" =>
          /\ StackIsAncestry
          /\ depth = Cardinality(BeingCompiled)
          /\ depth = Len(stack) - (IF Top.pc = "call" THEN 1 ELSE 0)
          /\ depth <= Ceiling
    /\ TreeBuilt => depth = 0
    /\ error = "depth_exceeded" =>
          /\ StackIsAncestry
          /\ Len(stack) > Ceiling
          /\ Cardinality(BeingCompiled) = Ceiling

\* C14 witness: in a schema of 101 nodes, one more than the ceiling of 100,
\* the second of two siblings on nesting level 100 is being compiled after
\* the first has returned, and the depth is 100, not 101.
C14_Witness ==
    /\ ~pypy
    /\ Len(schema) = MAX_DEPTH + 1
    /\ phase = "build_validator"
    /\ Len(stack) = MAX_DEPTH
    /\ Top.node = Len(schema)
    /\ Top.pc = "build"
    /\ inner[Len(schema) - 1] # <<>>
    /\ depth = MAX_DEPTH

====
